---- MODULE Spec2Model ----
(***************************************************************************)
(* Model of the URL shortener: the urls table and its constraints          *)
(* (migrations/20251201172222_create_urls_table.sql), the repository's     *)
(* store primitives (package repository), the allocator                    *)
(* (service.CreateShortURL / service.GetLongURL) run by concurrent request *)
(* goroutines, and the admission limiter (middleware/ratelimit.go).        *)
(*                                                                         *)
(* Every repository primitive is one SQL statement executed in autocommit  *)
(* mode, hence one atomic step.  A CreateShortURL call is a sequence of    *)
(* such steps; anything may interleave between two of them.  Failures of   *)
(* the database connection itself and of crypto/rand are not modelled:     *)
(* the only store errors are the ones the schema raises.                   *)
(***************************************************************************)
EXTENDS Integers, Sequences, FiniteSets, TLC

(* ------------------------------ bounds --------------------------------- *)
\* number of concurrent request goroutines
NumProcs == 2
\* Service.DesiredLength as configured in the model (the default is 10)
DesiredLength == 1
\* the database clock NOW() takes the values 0..MaxDbNow
MaxDbNow == 0
\* resolutions are cut off once a record's click_count reaches MaxClicks
MaxClicks == 2
\* a run serves at most MaxCalls requests
MaxCalls == 4
\* Go's int, 64 bits wide in the build, is an IntBits-bit two's complement
\* integer here
IntBits == 8

\* the application clock runs over the first MaxWindows + 1 window lengths
MaxWindows == 1
\* calls of one client in one window beyond the MaxRequestsPerIP admitted ones
ExtraCalls == 2

(* --------------------------- program constants ------------------------- *)
MaxRequestsPerIP == 20
\* in seconds
WindowDuration == 60
MaxShortCodeLength == 10
MaxRetries == 5

Base62Alphabet ==
  << "0","1","2","3","4","5","6","7","8","9",
     "a","b","c","d","e","f","g","h","i","j","k","l","m",
     "n","o","p","q","r","s","t","u","v","w","x","y","z",
     "A","B","C","D","E","F","G","H","I","J","K","L","M",
     "N","O","P","Q","R","S","T","U","V","W","X","Y","Z" >>

Procs == 1..NumProcs

\* Errors are the sequences of the parts of their messages (fmt.Errorf wraps
\* with %w); the nil error is the empty sequence.
Nil == << >>
\* strings.Contains(err.Error(), part)
Contains(err, part) == \E k \in 1..Len(err) : err[k] = part
ErrNoRows == << "sql: no rows in result set" >>
\* the empty string, as a sequence of characters
EmptyCode == << >>
\* SQL NULL (last_accessed_at before the first resolution)
Null == -1

(* ------------------------------ inputs --------------------------------- *)
\* request bodies' long_url values, as sequences of characters (gin's
\* binding:"required" keeps the empty string from reaching the service)
URLa == << "h", ":", "/", "/", "a" >>
URLb == << "h", ":", "/", "/", "b" >>
URLnoScheme == << "a", "/", "b" >>
LongURLs == { URLa, URLb, URLnoScheme }

\* values crypto/rand may deliver for one byte (62 and 0 map to the same symbol)
RandBytes == { 0, 1, 62 }

Letters == { Base62Alphabet[k] : k \in 11..62 }
Digits == { Base62Alphabet[k] : k \in 1..10 }
IsLetter(c) == c \in Letters
IsSchemeChar(c) == c \in Digits \cup { "+", "-", "." }

\* net/url getScheme: the length of the scheme when rawURL is  scheme ":" rest,
\* 0 when it has no scheme, -1 when it starts with ":" (missing protocol scheme)
RECURSIVE getScheme(_, _)
getScheme(rawURL, k) ==
  IF k > Len(rawURL) THEN 0
  ELSE IF IsLetter(rawURL[k]) THEN getScheme(rawURL, k + 1)
  ELSE IF rawURL[k] = ":" THEN (IF k = 1 THEN -1 ELSE k - 1)
  ELSE IF IsSchemeChar(rawURL[k]) THEN (IF k = 1 THEN 0 ELSE getScheme(rawURL, k + 1))
  ELSE 0

\* url.Parse in its place: a relative reference is accepted as well
ParseRequestURI_Parse(rawURL) == getScheme(rawURL, 1) >= 0

\* url.ParseRequestURI(longURL) returns no error
ParseRequestURI(rawURL) ==
  /\ rawURL # << >>
  /\ LET n == getScheme(rawURL, 1)
     IN /\ n >= 0
        /\ \/ n > 0
           \/ rawURL[1] = "/"
           \/ rawURL = << "*" >>

ValidURLs == { u \in LongURLs : ParseRequestURI(u) }

\* generateRandomCode on the random bytes bs
generateRandomCode(bs) ==
  [ k \in 1..Len(bs) |-> Base62Alphabet[(bs[k] % Len(Base62Alphabet)) + 1] ]

AllCodes == { generateRandomCode(bs) : bs \in [ 1..DesiredLength -> RandBytes ] }

\* short codes a resolution request may carry
CodeInputs == AllCodes \cup { EmptyCode }

(* ------------------------------ the store ------------------------------ *)
\* A urls row.  The table is the sequence of its rows in insertion order and
\* the id of a row is its position (BIGSERIAL, counted per inserted row).
NewRow(id, longURL, t) ==
  [ id |-> id, long_url |-> longURL, short_url |-> EmptyCode, click_count |-> 0,
    created_at |-> t, updated_at |-> t, last_accessed_at |-> Null ]

\* The constraint of the urls table that row r violates against the other rows
\* of store, Nil when none.  The unique indexes are checked in the order the
\* table declares them; short_url is NOT NULL, so '' is a value like any other.
urlsConstraint(store, r) ==
  LET others == { k \in 1..Len(store) : store[k].id # r.id }
  IN IF \E k \in others : store[k].long_url = r.long_url
     THEN << "duplicate key value violates unique constraint", "unique_long_url" >>
     ELSE IF \E k \in others : store[k].short_url = r.short_url
     THEN << "duplicate key value violates unique constraint", "unique_short_url" >>
     ELSE IF Len(r.short_url) > 10
     THEN << "value too long for type character varying(10)" >>
     ELSE Nil

\* InsertURL written as an upsert (ON CONFLICT (long_url) DO UPDATE ... RETURNING id):
\* a conflicting call gets the existing row's id and no error
InsertURL_Upsert(store, longURL, t) ==
  LET r == NewRow(Len(store) + 1, longURL, t)
      e == urlsConstraint(store, r)
  IN IF Contains(e, "unique_long_url")
     THEN [ id |-> CHOOSE k \in 1..Len(store) : store[k].long_url = longURL,
            err |-> Nil, store |-> store ]
     ELSE IF e # Nil
     THEN [ id |-> 0, err |-> << "failed to insert URL" >> \o e, store |-> store ]
     ELSE [ id |-> r.id, err |-> Nil, store |-> Append(store, r) ]

\* Repository.InsertURL
InsertURL(store, longURL, t) ==
  LET r == NewRow(Len(store) + 1, longURL, t)
      e == urlsConstraint(store, r)
  IN IF e # Nil
     THEN [ id |-> 0, err |-> << "failed to insert URL" >> \o e, store |-> store ]
     ELSE [ id |-> r.id, err |-> Nil, store |-> Append(store, r) ]

\* Repository.UpdateShortCode
UpdateShortCode(store, id, shortCode, t) ==
  IF id \notin 1..Len(store) THEN [ err |-> Nil, store |-> store ]
  ELSE LET r == [ store[id] EXCEPT !.short_url = shortCode, !.updated_at = t ]
           e == urlsConstraint(store, r)
       IN IF e # Nil
          THEN [ err |-> << "failed to update short code" >> \o e, store |-> store ]
          ELSE [ err |-> Nil, store |-> [ store EXCEPT ![id] = r ] ]

\* FindExistingShortCode with the filter inverted (short_url = '')
FindExistingShortCode_Inverted(store, longURL) ==
  LET hits == { k \in 1..Len(store) :
                  store[k].long_url = longURL /\ store[k].short_url = EmptyCode }
  IN IF hits = {} THEN [ shortCode |-> EmptyCode, err |-> Nil ]
     ELSE [ shortCode |-> store[CHOOSE k \in hits : TRUE].short_url, err |-> Nil ]

\* Repository.FindExistingShortCode
FindExistingShortCode(store, longURL) ==
  LET hits == { k \in 1..Len(store) :
                  store[k].long_url = longURL /\ store[k].short_url # EmptyCode }
  IN IF hits = {} THEN [ shortCode |-> EmptyCode, err |-> Nil ]
     ELSE [ shortCode |-> store[CHOOSE k \in hits : TRUE].short_url, err |-> Nil ]

\* Repository.IsShortCodeUnique
IsShortCodeUnique(store, code) ==
  ~ \E k \in 1..Len(store) : store[k].short_url = code

\* LookupAndTrack that bumps the timestamps but not click_count
LookupAndTrack_NoCount(store, shortCode, t) ==
  LET hits == { k \in 1..Len(store) : store[k].short_url = shortCode }
  IN IF hits = {} THEN [ longURL |-> << >>, err |-> ErrNoRows, store |-> store ]
     ELSE LET k == CHOOSE h \in hits : TRUE
          IN [ longURL |-> store[k].long_url, err |-> Nil,
               store |-> [ store EXCEPT ![k] =
                             [ @ EXCEPT !.last_accessed_at = t, !.updated_at = t ] ] ]

\* LookupAndTrack that skips unassigned rows (AND short_url != '')
LookupAndTrack_SkipEmpty(store, shortCode, t) ==
  LET hits == { k \in 1..Len(store) :
                  store[k].short_url = shortCode /\ store[k].short_url # EmptyCode }
  IN IF hits = {} THEN [ longURL |-> << >>, err |-> ErrNoRows, store |-> store ]
     ELSE LET k == CHOOSE h \in hits : TRUE
          IN [ longURL |-> store[k].long_url, err |-> Nil,
               store |-> [ store EXCEPT ![k] =
                             [ @ EXCEPT !.click_count = @ + 1,
                                        !.last_accessed_at = t,
                                        !.updated_at = t ] ] ]

\* Repository.LookupAndTrack
LookupAndTrack(store, shortCode, t) ==
  LET hits == { k \in 1..Len(store) : store[k].short_url = shortCode }
  IN IF hits = {} THEN [ longURL |-> << >>, err |-> ErrNoRows, store |-> store ]
     ELSE LET k == CHOOSE h \in hits : TRUE
          IN [ longURL |-> store[k].long_url, err |-> Nil,
               store |-> [ store EXCEPT ![k] =
                             [ @ EXCEPT !.click_count = @ + 1,
                                        !.last_accessed_at = t,
                                        !.updated_at = t ] ] ]


(* ------------------------------ the listing ---------------------------- *)
MaxInt == 2 ^ (IntBits - 1) - 1
MinInt == 0 - 2 ^ (IntBits - 1)

\* the int an arithmetic result is stored as: it wraps around
Wrap(x) == ((x - MinInt) % 2 ^ IntBits) + MinInt

\* Go's integer division, which truncates toward zero
Quo(a, b) ==
  LET abs(x) == IF x < 0 THEN 0 - x ELSE x
      q == abs(a) \div abs(b)
  IN IF (a < 0) = (b < 0) THEN Wrap(q) ELSE 0 - q

\* values of the page and limit query parameters as the handler passes them
\* on (it replaces values below 1 by 1 and 10)
Pages == { 1, 2, MaxInt }
Limits == { 1, 2, MaxInt }

\* Repository.GetTotalURLCount: SELECT COUNT(id) FROM urls
GetTotalURLCount(store) == Len(store)

\* the page, offset and page count Service.ListURLs computes from its
\* arguments and the count it read (service.go 166-174)
Paging(page, limit, totalCount) ==
  LET offset == Wrap((page - 1) * limit)
      totalPages == Quo(Wrap(Wrap(totalCount + limit) - 1), limit)
  IN IF totalPages = 0
     THEN [ page |-> page, offset |-> offset, totalPages |-> 1 ]
     ELSE IF page > totalPages
     THEN [ page |-> totalPages, offset |-> Wrap((totalPages - 1) * limit),
            totalPages |-> totalPages ]
     ELSE [ page |-> page, offset |-> offset, totalPages |-> totalPages ]

\* the orders ORDER BY created_at DESC may deliver the rows in: rows of equal
\* created_at come in any order
Orderings(store) ==
  { o \in [ 1..Len(store) -> 1..Len(store) ] :
      /\ \A j, k \in 1..Len(store) : j # k => o[j] # o[k]
      /\ \A j, k \in 1..Len(store) :
           j < k => store[o[j]].created_at >= store[o[k]].created_at }

\* Repository.ListURLs: LIMIT limit OFFSET offset of the rows in the order o;
\* PostgreSQL rejects a negative LIMIT or OFFSET
ListURLs(store, limit, offset, o) ==
  IF limit < 0 \/ offset < 0
  THEN [ urls |-> << >>, err |-> << "failed to query URLs" >> ]
  ELSE [ urls |-> [ k \in 1..(IF Len(store) - offset < 0 THEN 0
                               ELSE IF Len(store) - offset < limit
                               THEN Len(store) - offset ELSE limit) |->
                      store[o[offset + k]] ],
         err |-> Nil ]

(* ----------------------------- the limiter ---------------------------- *)
Clients == { "ip1", "ip2" }

\* the instants at which the application clock is read: the first two seconds
\* of every window length
Instants == { k * WindowDuration + d : k \in 0..MaxWindows, d \in 0..1 }

\* CheckAndIncrementAccess whose window already ends at WindowEnd
\* (!now.Before(access.WindowEnd) for now.After(access.WindowEnd))
CheckAndIncrementAccess_NotBefore(store, ip, t) ==
  IF ip \notin DOMAIN store \/ t >= store[ip].WindowEnd
  THEN [ ok |-> TRUE,
         store |-> [ c \in DOMAIN store \cup { ip } |->
                       IF c = ip THEN [ Count |-> 1, WindowEnd |-> t + WindowDuration ]
                       ELSE store[c] ] ]
  ELSE IF store[ip].Count < MaxRequestsPerIP
  THEN [ ok |-> TRUE, store |-> [ store EXCEPT ![ip].Count = @ + 1 ] ]
  ELSE [ ok |-> FALSE, store |-> store ]

\* CheckAndIncrementAccess that restarts the window of a rejected client
CheckAndIncrementAccess_ExtendOnReject(store, ip, t) ==
  IF ip \notin DOMAIN store \/ t > store[ip].WindowEnd
  THEN [ ok |-> TRUE,
         store |-> [ c \in DOMAIN store \cup { ip } |->
                       IF c = ip THEN [ Count |-> 1, WindowEnd |-> t + WindowDuration ]
                       ELSE store[c] ] ]
  ELSE IF store[ip].Count < MaxRequestsPerIP
  THEN [ ok |-> TRUE, store |-> [ store EXCEPT ![ip].Count = @ + 1 ] ]
  ELSE [ ok |-> FALSE,
         store |-> [ store EXCEPT ![ip].WindowEnd = t + WindowDuration ] ]

\* CheckAndIncrementAccess with a window that ends when it opens
\* (WindowEnd: now, for now.Add(WindowDuration))
CheckAndIncrementAccess_NoDuration(store, ip, t) ==
  IF ip \notin DOMAIN store \/ t > store[ip].WindowEnd
  THEN [ ok |-> TRUE,
         store |-> [ c \in DOMAIN store \cup { ip } |->
                       IF c = ip THEN [ Count |-> 1, WindowEnd |-> t ]
                       ELSE store[c] ] ]
  ELSE IF store[ip].Count < MaxRequestsPerIP
  THEN [ ok |-> TRUE, store |-> [ store EXCEPT ![ip].Count = @ + 1 ] ]
  ELSE [ ok |-> FALSE, store |-> store ]

\* the body of CheckAndIncrementAccess(ip) run at time t on the map store:
\* the result and the map it leaves (ratelimit.go 31-48)
CheckAndIncrementAccess(store, ip, t) ==
  IF ip \notin DOMAIN store \/ t > store[ip].WindowEnd
  THEN [ ok |-> TRUE,
         store |-> [ c \in DOMAIN store \cup { ip } |->
                       IF c = ip THEN [ Count |-> 1, WindowEnd |-> t + WindowDuration ]
                       ELSE store[c] ] ]
  ELSE IF store[ip].Count < MaxRequestsPerIP
  THEN [ ok |-> TRUE, store |-> [ store EXCEPT ![ip].Count = @ + 1 ] ]
  ELSE [ ok |-> FALSE, store |-> store ]

VARIABLES
  urls,        \* the urls table
  dbNow,       \* the database clock: the latest NOW() a statement has stored
  pc,          \* per goroutine: where its current call stands
  longURL,     \* per goroutine: the argument of its CreateShortURL call
  newID,       \* per goroutine: the id InsertURL returned
  i,           \* per goroutine: the retry loop's counter
  shortCode,   \* per goroutine: the accepted candidate
  ret,         \* what the call that finished last returned
  calls,       \* the number of requests served so far
  page,        \* per goroutine in ListURLs: the page argument
  limit,       \* per goroutine in ListURLs: the limit argument
  totalCount,  \* per goroutine in ListURLs: the count GetTotalURLCount returned
  \* the limiter
  rateLimitStore,  \* the window map: client -> [Count, WindowEnd]
  limitMutex,      \* the goroutine holding limitMutex, 0 when it is free
  clock,           \* the application clock, time.Now()
  ip,              \* per goroutine in CheckAndIncrementAccess: its argument
  now,             \* per goroutine in CheckAndIncrementAccess: the time it read
  \* history variables (they record what happened; no action reads them to decide)
  returned,    \* per long URL: the codes its finished calls returned with a nil error
  overlap,     \* per long URL: have two CreateShortURL calls for it ever overlapped
  flags,       \* per goroutine: how the store stood when its current call started
  inserts,     \* per long URL: the number of InsertURL calls that succeeded
  owner,       \* per row: the goroutine whose running call inserted it, 0 after that call
  assigned,    \* per row: the number of UpdateShortCode calls that changed it
  held,        \* per code: the long URLs whose rows have ever held it
  resolved,    \* per row: the number of GetLongURL calls that returned its long URL
  hist,        \* per client: its calls counted against the windows of the contract
  admits       \* per instant of the last WindowDuration seconds: the calls of client
               \* Observed admitted at it (kept by LimiterCheckLogged only)

histVars == << returned, overlap, flags, inserts, owner, assigned, held, resolved >>
listVars == << page, limit, totalCount >>
limVars == << rateLimitStore, limitMutex, clock, ip, now, hist, admits, listVars >>
vars == << urls, dbNow, pc, longURL, newID, i, shortCode, ret, calls, listVars,
           returned, overlap, flags, inserts, owner, assigned, held, resolved,
           rateLimitStore, limitMutex, clock, ip, now, hist, admits >>

NoRet == [ op |-> "none" ]
NoFlags == [ repeat |-> FALSE, retry |-> FALSE ]

\* the rows of store whose long_url is u
RowsOf(store, u) == { k \in 1..Len(store) : store[k].long_url = u }

Init ==
  /\ urls = << >>
  /\ dbNow = 0
  /\ pc = [ p \in Procs |-> "idle" ]
  /\ longURL = [ p \in Procs |-> << >> ]
  /\ newID = [ p \in Procs |-> 0 ]
  /\ i = [ p \in Procs |-> 0 ]
  /\ shortCode = [ p \in Procs |-> EmptyCode ]
  /\ ret = NoRet
  /\ calls = 0
  /\ page = [ p \in Procs |-> 0 ]
  /\ limit = [ p \in Procs |-> 0 ]
  /\ totalCount = [ p \in Procs |-> 0 ]
  /\ returned = [ u \in ValidURLs |-> {} ]
  /\ overlap = [ u \in ValidURLs |-> FALSE ]
  /\ flags = [ p \in Procs |-> NoFlags ]
  /\ inserts = [ u \in ValidURLs |-> 0 ]
  /\ owner = << >>
  /\ assigned = << >>
  /\ held = [ c \in AllCodes |-> {} ]
  /\ resolved = << >>
  /\ rateLimitStore = << >>
  /\ limitMutex = 0
  /\ clock = 0
  /\ ip = [ p \in Procs |-> "" ]
  /\ now = [ p \in Procs |-> 0 ]
  /\ hist = [ c \in Clients |->
              [ n |-> 0, end |-> 0, ok |-> TRUE, windows |-> 0, admitted |-> 0 ] ]
  /\ admits = [ t \in Instants |-> 0 ]

\* A request is served by the first goroutine that is idle: goroutines that
\* are idle are interchangeable, so this leaves out no behaviour.
FirstIdle(p) ==
  /\ pc[p] = "idle" /\ limitMutex # p
  /\ \A q \in Procs : q < p => pc[q] # "idle" \/ limitMutex = q

\* NOW() as a statement may read it: the database clock never runs backwards
Now == dbNow..MaxDbNow

\* CreateShortURL returns (code, err): the goroutine is idle again
Return(p, code, err, store) ==
  /\ pc' = [ pc EXCEPT ![p] = "idle" ]
  /\ ret' = [ op |-> "create", longURL |-> longURL[p],
               code |-> code, err |-> err,
               stored |-> { store[k].short_url : k \in RowsOf(store, longURL[p]) },
               repeat |-> flags[p].repeat,
               retry |-> flags[p].retry ]
  /\ longURL' = [ longURL EXCEPT ![p] = << >> ]
  /\ newID' = [ newID EXCEPT ![p] = 0 ]
  /\ i' = [ i EXCEPT ![p] = 0 ]
  /\ shortCode' = [ shortCode EXCEPT ![p] = EmptyCode ]
  /\ flags' = [ flags EXCEPT ![p] = NoFlags ]
  /\ returned' = IF err = Nil
                 THEN [ returned EXCEPT ![longURL[p]] = @ \cup { code } ]
                 ELSE returned
  /\ owner' = [ k \in 1..Len(owner) |-> IF owner[k] = p THEN 0 ELSE owner[k] ]

\* CreateShortURL(u) is called: defaults, validation and the idempotency check
\* (service.go 62-85)
CreateShortURLCall(p, u) ==
  /\ LET f == FindExistingShortCode(urls, u)
         repeat == returned[u] # {}
         retry == \E k \in RowsOf(urls, u) :
                    urls[k].short_url = EmptyCode /\ owner[k] = 0
     IN IF ~ ParseRequestURI(u)
        THEN /\ ret' = [ op |-> "create", longURL |-> u, code |-> EmptyCode,
                         err |-> << "invalid URL format" >>, stored |-> {},
                         repeat |-> FALSE, retry |-> FALSE ]
             /\ UNCHANGED << pc, longURL, overlap, flags, returned >>
        ELSE /\ overlap' = [ overlap EXCEPT ![u] =
                               @ \/ \E q \in Procs \ { p } : longURL[q] = u ]
             /\ IF f.shortCode # EmptyCode
                THEN /\ ret' = [ op |-> "create", longURL |-> u, code |-> f.shortCode,
                                 err |-> Nil,
                                 stored |-> { urls[k].short_url : k \in RowsOf(urls, u) },
                                 repeat |-> repeat, retry |-> retry ]
                     /\ returned' = [ returned EXCEPT ![u] = @ \cup { f.shortCode } ]
                     /\ UNCHANGED << pc, longURL, flags >>
                ELSE /\ pc' = [ pc EXCEPT ![p] = "insert" ]
                     /\ longURL' = [ longURL EXCEPT ![p] = u ]
                     /\ flags' = [ flags EXCEPT ![p] =
                                     [ repeat |-> repeat, retry |-> retry ] ]
                     /\ UNCHANGED << ret, returned >>
  /\ UNCHANGED << urls, dbNow, newID, i, shortCode, inserts, owner, assigned, held,
                  resolved >>

\* a CreateShortURL(u) call made on an idle goroutine
CreateShortURL(p, u) ==
  /\ FirstIdle(p)
  /\ calls < MaxCalls
  /\ calls' = calls + 1
  /\ CreateShortURLCall(p, u)
  /\ UNCHANGED limVars

\* the placeholder insert (service.go 88-98)
PlaceholderInsert(p) ==
  /\ pc[p] = "insert"
  /\ \E t \in Now :
       LET r == InsertURL(urls, longURL[p], t)
       IN /\ urls' = r.store
          /\ dbNow' = (IF r.store # urls THEN t ELSE dbNow)
          /\ IF r.err = Nil
             THEN /\ newID' = [ newID EXCEPT ![p] = r.id ]
                  /\ pc' = [ pc EXCEPT ![p] = "loop" ]
                  /\ inserts' = [ inserts EXCEPT ![longURL[p]] = @ + 1 ]
                  /\ owner' = [ k \in 1..Len(r.store) |->
                                  IF k \in 1..Len(owner) THEN owner[k] ELSE p ]
                  /\ assigned' = [ k \in 1..Len(r.store) |->
                                     IF k \in 1..Len(assigned) THEN assigned[k] ELSE 0 ]
                  /\ resolved' = [ k \in 1..Len(r.store) |->
                                     IF k \in 1..Len(resolved) THEN resolved[k] ELSE 0 ]
                  /\ UNCHANGED << longURL, i, shortCode, ret, returned, flags >>
             ELSE IF Contains(r.err, "unique_long_url")
             THEN /\ pc' = [ pc EXCEPT ![p] = "refind" ]
                  /\ UNCHANGED << longURL, newID, i, shortCode, ret, returned, flags,
                                  inserts, owner, assigned, resolved >>
             ELSE /\ Return(p, EmptyCode, r.err, r.store)
                  /\ UNCHANGED << inserts, assigned, resolved >>
  /\ UNCHANGED << calls, overlap, held >>
  /\ UNCHANGED limVars

\* the lookup after a unique_long_url violation (service.go 91-94)
ConflictLookup(p) ==
  /\ pc[p] = "refind"
  /\ LET f == FindExistingShortCode(urls, longURL[p])
     IN Return(p, f.shortCode, f.err, urls)
  /\ UNCHANGED << urls, dbNow, calls, overlap, inserts, assigned, held, resolved >>
  /\ UNCHANGED limVars

\* the retry loop with its bound off by one (i <= maxRetries)
Attempt_OffByOne(p) ==
  /\ pc[p] = "loop"
  /\ i[p] <= MaxRetries
  /\ \E bs \in [ 1..DesiredLength -> RandBytes ] :
       LET code == generateRandomCode(bs)
       IN IF IsShortCodeUnique(urls, code)
          THEN IF Len(code) > MaxShortCodeLength
               THEN Return(p, EmptyCode,
                           << "internal error: generated code exceeds max length" >>,
                           urls)
               ELSE /\ shortCode' = [ shortCode EXCEPT ![p] = code ]
                    /\ pc' = [ pc EXCEPT ![p] = "update" ]
                    /\ UNCHANGED << longURL, newID, i, ret, returned, flags, owner >>
          ELSE IF i[p] + 1 <= MaxRetries
          THEN /\ i' = [ i EXCEPT ![p] = @ + 1 ]
               /\ UNCHANGED << pc, longURL, newID, shortCode, ret, returned, flags,
                               owner >>
          ELSE Return(p, EmptyCode, << "service capacity exhausted" >>, urls)
  /\ UNCHANGED << urls, dbNow, calls, overlap, inserts, assigned, held, resolved >>
  /\ UNCHANGED limVars

\* one iteration of the retry loop, and what follows the loop up to the
\* UpdateShortCode call (service.go 102-134)
Attempt(p) ==
  /\ pc[p] = "loop"
  /\ i[p] < MaxRetries
  /\ \E bs \in [ 1..DesiredLength -> RandBytes ] :
       LET code == generateRandomCode(bs)
       IN IF IsShortCodeUnique(urls, code)
          THEN IF Len(code) > MaxShortCodeLength
               THEN Return(p, EmptyCode,
                           << "internal error: generated code exceeds max length" >>,
                           urls)
               ELSE /\ shortCode' = [ shortCode EXCEPT ![p] = code ]
                    /\ pc' = [ pc EXCEPT ![p] = "update" ]
                    /\ UNCHANGED << longURL, newID, i, ret, returned, flags, owner >>
          ELSE IF i[p] + 1 < MaxRetries
          THEN /\ i' = [ i EXCEPT ![p] = @ + 1 ]
               /\ UNCHANGED << pc, longURL, newID, shortCode, ret, returned, flags,
                               owner >>
          ELSE Return(p, EmptyCode, << "service capacity exhausted" >>, urls)
  /\ UNCHANGED << urls, dbNow, calls, overlap, inserts, assigned, held, resolved >>
  /\ UNCHANGED limVars

\* the finalize step (service.go 136-143)
Finalize(p) ==
  /\ pc[p] = "update"
  /\ \E t \in Now :
     LET r == UpdateShortCode(urls, newID[p], shortCode[p], t)
     IN /\ urls' = r.store
        /\ dbNow' = (IF r.store # urls THEN t ELSE dbNow)
        /\ IF r.err = Nil
           THEN /\ Return(p, shortCode[p], Nil, r.store)
                /\ assigned' = [ k \in 1..Len(assigned) |->
                                   IF urls[k].short_url # r.store[k].short_url
                                   THEN assigned[k] + 1 ELSE assigned[k] ]
                /\ held' = [ c \in AllCodes |->
                               held[c] \cup { r.store[k].long_url :
                                  k \in { h \in 1..Len(r.store) :
                                            r.store[h].short_url = c } } ]
           ELSE /\ Return(p, EmptyCode, r.err, r.store)
                /\ UNCHANGED << assigned, held >>
  /\ UNCHANGED << calls, overlap, inserts, resolved >>
  /\ UNCHANGED limVars

\* GetLongURL(code) (service.go 146-156): one LookupAndTrack statement
GetLongURLCall(p, code) ==
  /\ \A k \in 1..Len(urls) : urls[k].short_url = code => urls[k].click_count < MaxClicks
  /\ \E t \in Now :
     LET r == LookupAndTrack(urls, code, t)
     IN /\ urls' = r.store
        /\ dbNow' = (IF r.store # urls THEN t ELSE dbNow)
        /\ ret' = [ op |-> "get", code |-> code, longURL |-> r.longURL,
                     err |-> IF r.err = ErrNoRows
                             THEN << "short code not found" >> ELSE r.err,
                     owners |-> { u \in ValidURLs : code \in returned[u] },
                     wasHeld |-> \E k \in 1..Len(urls) : urls[k].short_url = code,
                     changed |-> r.store # urls ]
        /\ resolved' = [ k \in 1..Len(resolved) |->
                           IF r.err = Nil /\ urls[k].long_url = r.longURL
                           THEN resolved[k] + 1 ELSE resolved[k] ]
  /\ UNCHANGED << pc, longURL, newID, i, shortCode >>
  /\ UNCHANGED << returned, overlap, flags, inserts, owner, assigned, held >>

\* a GetLongURL(code) call made on an idle goroutine
GetLongURL(p, code) ==
  /\ FirstIdle(p)
  /\ calls < MaxCalls
  /\ calls' = calls + 1
  /\ GetLongURLCall(p, code)
  /\ UNCHANGED limVars

\* Service.ListURLs(page, limit) is called: the count query (service.go 161-164)
ListURLsCountCall(p, pg, lim) ==
  /\ pc' = [ pc EXCEPT ![p] = "page" ]
  /\ page' = [ page EXCEPT ![p] = pg ]
  /\ limit' = [ limit EXCEPT ![p] = lim ]
  /\ totalCount' = [ totalCount EXCEPT ![p] = GetTotalURLCount(urls) ]
  /\ UNCHANGED << urls, dbNow, longURL, newID, i, shortCode, ret,
                  returned, overlap, flags, inserts, owner, assigned, held, resolved >>

\* a Service.ListURLs(pg, lim) call made on an idle goroutine
ListURLsCount(p, pg, lim) ==
  /\ FirstIdle(p)
  /\ calls < MaxCalls
  /\ calls' = calls + 1
  /\ ListURLsCountCall(p, pg, lim)
  /\ UNCHANGED << rateLimitStore, limitMutex, clock, ip, now, hist, admits >>

\* the clamping, the page query and the response (service.go 166-187)
ListURLsPage(p) ==
  /\ pc[p] = "page"
  /\ LET g == Paging(page[p], limit[p], totalCount[p])
     IN \E o \in Orderings(urls) :
          LET r == ListURLs(urls, limit[p], g.offset, o)
          IN ret' = [ op |-> "list", page |-> page[p], limit |-> limit[p],
                      rows |-> Len(urls),
                      err |-> IF r.err = Nil THEN Nil
                              ELSE << "failed to fetch paginated URLs" >> \o r.err,
                      ids |-> [ k \in 1..Len(r.urls) |-> r.urls[k].id ],
                      offset |-> g.offset,
                      TotalCount |-> totalCount[p], Page |-> g.page,
                      Limit |-> limit[p], TotalPages |-> g.totalPages ]
  /\ pc' = [ pc EXCEPT ![p] = "idle" ]
  /\ page' = [ page EXCEPT ![p] = 0 ]
  /\ limit' = [ limit EXCEPT ![p] = 0 ]
  /\ totalCount' = [ totalCount EXCEPT ![p] = 0 ]
  /\ UNCHANGED << urls, dbNow, longURL, newID, i, shortCode, calls,
                  returned, overlap, flags, inserts, owner, assigned, held, resolved >>
  /\ UNCHANGED << rateLimitStore, limitMutex, clock, ip, now, hist, admits >>

ListNext ==
  \/ \E p \in Procs, u \in LongURLs : CreateShortURL(p, u)
  \/ \E p \in Procs : PlaceholderInsert(p)
  \/ \E p \in Procs : ConflictLookup(p)
  \/ \E p \in Procs : Attempt(p)
  \/ \E p \in Procs : Finalize(p)
  \/ \E p \in Procs, pg \in Pages, lim \in Limits : ListURLsCount(p, pg, lim)
  \/ \E p \in Procs : ListURLsPage(p)

\* creations and listings served concurrently
ListSpec == Init /\ [][ListNext]_vars

svcVars == << urls, dbNow, pc, longURL, newID, i, shortCode, ret, calls,
             returned, overlap, flags, inserts, owner, assigned, held, resolved >>
allocVars == << svcVars, admits, listVars >>

\* the application clock advances to a later instant
ClockTick ==
  /\ \E t \in Instants : t > clock /\ clock' = t
  /\ UNCHANGED << rateLimitStore, limitMutex, ip, now, hist >>
  /\ UNCHANGED allocVars

\* CheckAndIncrementAccess entered without waiting for limitMutex
LimiterLock_NoMutex(p, c) ==
  /\ FirstIdle(p)
  /\ hist[c].n < MaxRequestsPerIP + ExtraCalls \/ clock > hist[c].end
  /\ limitMutex' = p
  /\ ip' = [ ip EXCEPT ![p] = c ]
  /\ now' = [ now EXCEPT ![p] = clock ]
  /\ UNCHANGED << rateLimitStore, clock, hist >>
  /\ UNCHANGED allocVars

\* CheckAndIncrementAccess(c): limitMutex.Lock() and time.Now() (ratelimit.go 28-31)
LimiterLock(p, c) ==
  /\ FirstIdle(p)
  /\ limitMutex = 0
  /\ hist[c].n < MaxRequestsPerIP + ExtraCalls \/ clock > hist[c].end
  /\ limitMutex' = p
  /\ ip' = [ ip EXCEPT ![p] = c ]
  /\ now' = [ now EXCEPT ![p] = clock ]
  /\ UNCHANGED << rateLimitStore, clock, hist >>
  /\ UNCHANGED allocVars

\* the rest of CheckAndIncrementAccess and the deferred Unlock (ratelimit.go 32-48)
LimiterCheck(p) ==
  /\ limitMutex = p
  /\ LET r == CheckAndIncrementAccess(rateLimitStore, ip[p], now[p])
         h == hist[ip[p]]
         fresh == h.n = 0 \/ now[p] > h.end
     IN /\ rateLimitStore' = r.store
        /\ hist' = [ hist EXCEPT ![ip[p]] =
                       [ n |-> IF fresh THEN 1 ELSE h.n + 1,
                         end |-> IF fresh THEN now[p] + WindowDuration ELSE h.end,
                         ok |-> r.ok,
                         windows |-> IF fresh THEN h.windows + 1 ELSE h.windows,
                         admitted |-> (IF fresh THEN 0 ELSE h.admitted)
                                        + (IF r.ok THEN 1 ELSE 0) ] ]
  /\ limitMutex' = 0
  /\ ip' = [ ip EXCEPT ![p] = "" ]
  /\ now' = [ now EXCEPT ![p] = 0 ]
  /\ UNCHANGED clock
  /\ UNCHANGED allocVars

\* the client whose admissions are logged instant by instant
Observed == "ip1"

\* LimiterCheck, with the admission logged at the instant the call read
\* (ratelimit.go 32-48)
LimiterCheckLogged(p) ==
  /\ limitMutex = p
  /\ LET r == CheckAndIncrementAccess(rateLimitStore, ip[p], now[p])
         h == hist[ip[p]]
         fresh == h.n = 0 \/ now[p] > h.end
     IN /\ rateLimitStore' = r.store
        /\ hist' = [ hist EXCEPT ![ip[p]] =
                       [ n |-> IF fresh THEN 1 ELSE h.n + 1,
                         end |-> IF fresh THEN now[p] + WindowDuration ELSE h.end,
                         ok |-> r.ok,
                         windows |-> IF fresh THEN h.windows + 1 ELSE h.windows,
                         admitted |-> (IF fresh THEN 0 ELSE h.admitted)
                                        + (IF r.ok THEN 1 ELSE 0) ] ]
        /\ admits' = [ t \in Instants |->
                         IF t + WindowDuration < now[p] THEN 0
                         ELSE IF t = now[p] /\ r.ok /\ ip[p] = Observed
                         THEN admits[t] + 1
                         ELSE admits[t] ]
  /\ limitMutex' = 0
  /\ ip' = [ ip EXCEPT ![p] = "" ]
  /\ now' = [ now EXCEPT ![p] = 0 ]
  /\ UNCHANGED clock
  /\ UNCHANGED << svcVars, listVars >>

BurstNext ==
  \/ ClockTick
  \/ \E p \in Procs : LimiterLock(p, Observed)
  \/ \E p \in Procs : LimiterCheckLogged(p)

\* the limiter called for one client, every admission logged
BurstSpec == Init /\ [][BurstNext]_vars

(* ------------------------- the served routes --------------------------- *)
\* the response of the middleware to a request it aborts (ratelimit.go 64-69)
Rejected(c) ==
  [ op |-> "rejected", status |-> 429, RetryAfter |-> "60", ip |-> c ]

\* the response of GET /healthcheck while the database answers
\* (handler.go 44-47)
Healthy == [ op |-> "health", status |-> 200 ]

\* the middleware never calling c.Abort(): the handler runs whatever the
\* limiter answered
RateLimiterMiddleware_NoAbort(p, c, handler) ==
  /\ FirstIdle(p)
  /\ limitMutex = 0
  /\ calls < MaxCalls
  /\ calls' = calls + 1
  /\ LET r == CheckAndIncrementAccess(rateLimitStore, c, clock)
         h == hist[c]
         fresh == h.n = 0 \/ clock > h.end
     IN /\ rateLimitStore' = r.store
        /\ hist' = [ hist EXCEPT ![c] =
                       [ n |-> IF fresh THEN 1 ELSE h.n + 1,
                         end |-> IF fresh THEN clock + WindowDuration ELSE h.end,
                         ok |-> r.ok,
                         windows |-> IF fresh THEN h.windows + 1 ELSE h.windows,
                         admitted |-> (IF fresh THEN 0 ELSE h.admitted)
                                        + (IF r.ok THEN 1 ELSE 0) ] ]
        /\ handler
  /\ UNCHANGED << limitMutex, clock, ip, now, admits >>

\* RateLimiterMiddleware (ratelimit.go 60-74) in front of a route: goroutine p
\* serves a request of client c.  CheckAndIncrementAccess runs under the
\* limiter's mutex; a false answer aborts the chain with 429 and
\* Retry-After: 60, a true one lets c.Next() run the route's handler, whose
\* first statement is taken in the same step (it touches the database, the
\* limiter only its own map)
RateLimiterMiddleware(p, c, handler) ==
  /\ FirstIdle(p)
  /\ limitMutex = 0
  /\ calls < MaxCalls
  /\ calls' = calls + 1
  /\ LET r == CheckAndIncrementAccess(rateLimitStore, c, clock)
         h == hist[c]
         fresh == h.n = 0 \/ clock > h.end
     IN /\ rateLimitStore' = r.store
        /\ hist' = [ hist EXCEPT ![c] =
                       [ n |-> IF fresh THEN 1 ELSE h.n + 1,
                         end |-> IF fresh THEN clock + WindowDuration ELSE h.end,
                         ok |-> r.ok,
                         windows |-> IF fresh THEN h.windows + 1 ELSE h.windows,
                         admitted |-> (IF fresh THEN 0 ELSE h.admitted)
                                        + (IF r.ok THEN 1 ELSE 0) ] ]
        /\ IF r.ok
           THEN handler
           ELSE /\ ret' = Rejected(c)
                /\ UNCHANGED << urls, dbNow, pc, longURL, newID, i, shortCode,
                                returned, overlap, flags, inserts, owner,
                                assigned, held, resolved, listVars >>
  /\ UNCHANGED << limitMutex, clock, ip, now, admits >>

\* POST /shorten (part_000 93, handler.go 50-81)
ShortenRequest(p, c, u) ==
  RateLimiterMiddleware(p, c, CreateShortURLCall(p, u) /\ UNCHANGED listVars)

\* GET /healthcheck (part_000 94, handler.go 29-48)
HealthCheckRequest(p, c) ==
  RateLimiterMiddleware(p, c,
    /\ ret' = Healthy
    /\ UNCHANGED << urls, dbNow, pc, longURL, newID, i, shortCode,
                    returned, overlap, flags, inserts, owner,
                    assigned, held, resolved, listVars >>)

\* GET /:code (part_000 95, handler.go 83-103)
RedirectRequest(p, c, code) ==
  RateLimiterMiddleware(p, c, GetLongURLCall(p, code) /\ UNCHANGED listVars)

\* the paging of a GET /urls without query parameters (handler.go 106-107)
DefaultPage == 1
DefaultLimit == 10

\* GET /urls (part_000 96, handler.go 105-133)
ListRequest(p, c) ==
  RateLimiterMiddleware(p, c, ListURLsCountCall(p, DefaultPage, DefaultLimit))

\* the limiter as 19 requests of each client to /healthcheck leave it: one
\* more request of a client is admitted in the window, its next ones are not
WarmCount == MaxRequestsPerIP - 1

GatedInit ==
  /\ urls = << >>
  /\ dbNow = 0
  /\ pc = [ p \in Procs |-> "idle" ]
  /\ longURL = [ p \in Procs |-> << >> ]
  /\ newID = [ p \in Procs |-> 0 ]
  /\ i = [ p \in Procs |-> 0 ]
  /\ shortCode = [ p \in Procs |-> EmptyCode ]
  /\ ret = Healthy
  /\ calls = 0
  /\ page = [ p \in Procs |-> 0 ]
  /\ limit = [ p \in Procs |-> 0 ]
  /\ totalCount = [ p \in Procs |-> 0 ]
  /\ returned = [ u \in ValidURLs |-> {} ]
  /\ overlap = [ u \in ValidURLs |-> FALSE ]
  /\ flags = [ p \in Procs |-> NoFlags ]
  /\ inserts = [ u \in ValidURLs |-> 0 ]
  /\ owner = << >>
  /\ assigned = << >>
  /\ held = [ c \in AllCodes |-> {} ]
  /\ resolved = << >>
  /\ rateLimitStore = [ c \in Clients |->
                          [ Count |-> WarmCount, WindowEnd |-> WindowDuration ] ]
  /\ limitMutex = 0
  /\ clock = 0
  /\ ip = [ p \in Procs |-> "" ]
  /\ now = [ p \in Procs |-> 0 ]
  /\ hist = [ c \in Clients |->
              [ n |-> WarmCount, end |-> WindowDuration, ok |-> TRUE,
                windows |-> 1, admitted |-> WarmCount ] ]
  /\ admits = [ t \in Instants |-> 0 ]

GatedNext ==
  \/ \E p \in Procs, c \in Clients, u \in LongURLs : ShortenRequest(p, c, u)
  \/ \E p \in Procs, c \in Clients : HealthCheckRequest(p, c)
  \/ \E p \in Procs, c \in Clients, code \in AllCodes : RedirectRequest(p, c, code)
  \/ \E p \in Procs, c \in Clients : ListRequest(p, c)
  \/ \E p \in Procs : PlaceholderInsert(p)
  \/ \E p \in Procs : ConflictLookup(p)
  \/ \E p \in Procs : Attempt(p)
  \/ \E p \in Procs : Finalize(p)
  \/ \E p \in Procs : ListURLsPage(p)

\* the server: every route behind the rate limiter (part_000 91-96), within
\* one window of the limiter
GatedSpec == GatedInit /\ [][GatedNext]_vars

LimiterNext ==
  \/ ClockTick
  \/ \E p \in Procs, c \in Clients : LimiterLock(p, c)
  \/ \E p \in Procs : LimiterCheck(p)

\* the limiter alone, called by concurrent request goroutines
LimiterSpec == Init /\ [][LimiterNext]_vars

Next ==
  \/ \E p \in Procs, u \in LongURLs : CreateShortURL(p, u)
  \/ \E p \in Procs : PlaceholderInsert(p)
  \/ \E p \in Procs : ConflictLookup(p)
  \/ \E p \in Procs : Attempt(p)
  \/ \E p \in Procs : Finalize(p)
  \/ \E p \in Procs, c \in CodeInputs : GetLongURL(p, c)

Spec == Init /\ [][Next]_vars

(* ------------------------------- claims -------------------------------- *)
NotFound == << "short code not found" >>
CapacityExhausted == << "service capacity exhausted" >>

\* the call that finished last was a CreateShortURL / a GetLongURL
Created == ret.op = "create"
CreatedOK == Created /\ ret.err = Nil
Resolved == ret.op = "get"

\* C1: among concurrent CreateShortURL calls for one long URL exactly one
\* InsertURL succeeds, and every call that returns a nil error returns one and
\* the same code: the non-empty code stored on that long URL's row.
C1_SingleWinnerCode ==
  /\ \A u \in ValidURLs : inserts[u] <= 1 /\ Cardinality(returned[u]) <= 1
  /\ CreatedOK => /\ ret.code # EmptyCode
                  /\ ret.stored = { ret.code }

\* C2: sequential calls for one long URL return the same code every time, one
\* row exists for it however many calls were made, and a call made after one
\* that returned performs neither an insert nor a code assignment.
C2_IdempotentCreation ==
  /\ \A u \in ValidURLs :
       /\ Cardinality(RowsOf(urls, u)) <= 1
       /\ ~ overlap[u] =>
            /\ Cardinality(returned[u]) <= 1
            /\ returned[u] # {} => Cardinality(RowsOf(urls, u)) = 1
  /\ \A p \in Procs :
       (pc[p] # "idle" /\ flags[p].repeat /\ ~ overlap[longURL[p]])
         => pc[p] \in { "insert", "refind" }
  /\ (CreatedOK /\ ret.repeat /\ ~ overlap[ret.longURL])
       => returned[ret.longURL] = { ret.code }

\* a repeated, non-overlapping call has returned the code assigned earlier,
\* while a row for another long URL exists
C2_Witness ==
  /\ CreatedOK /\ ret.repeat /\ ~ overlap[ret.longURL]
  /\ ret.code # EmptyCode
  /\ Len(urls) = 2

\* C3: the placeholder insert for one long URL never fails because the row of
\* a different long URL is still unassigned.
C3_PlaceholdersCoexist ==
  Created => ~ ( /\ Contains(ret.err, "failed to insert URL")
                 /\ Contains(ret.err, "unique_short_url") )

\* C4: no two rows share a non-empty short_url, and the codes returned for two
\* distinct long URLs are distinct.
C4_Uniqueness ==
  /\ \A j, k \in 1..Len(urls) :
       (j # k /\ urls[j].short_url # EmptyCode) => urls[j].short_url # urls[k].short_url
  /\ \A u, v \in ValidURLs : u # v => returned[u] \cap returned[v] = {}

\* C5: resolving a code that a CreateShortURL(L) call returned succeeds and
\* returns L.
C5_RoundTrip ==
  (Resolved /\ ret.owners # {})
    => ret.err = Nil /\ ret.owners = { ret.longURL }

\* C6: a non-empty short_url never changes; a row's short_url is changed at
\* most once, by the call whose InsertURL created the row; and no non-empty
\* code is ever held by rows of two long URLs.
C6_CodeSetOnce ==
  /\ [] ( /\ \A k \in 1..Len(urls) : assigned[k] <= 1
          /\ \A c \in AllCodes : Cardinality(held[c]) <= 1 )
  /\ [][ \A k \in 1..Len(urls) :
           /\ urls[k].short_url # EmptyCode => urls'[k].short_url = urls[k].short_url
           /\ urls'[k].short_url # urls[k].short_url
                => /\ owner[k] \in Procs
                   /\ pc[owner[k]] = "update"
                   /\ newID[owner[k]] = k
                   /\ assigned[k] = 0 ]_vars

\* two rows have been assigned their codes
C6_Witness ==
  /\ Len(urls) = 2
  /\ \A k \in 1..Len(urls) : urls[k].short_url # EmptyCode /\ assigned[k] = 1

\* C7: click_count of a row equals the number of successful resolutions of its
\* code, whatever else happened to the row.
C7_ClickAccounting ==
  /\ Len(resolved) = Len(urls)
  /\ \A k \in 1..Len(urls) : urls[k].click_count = resolved[k]

\* an assigned row was resolved MaxClicks times while another row exists
C7_Witness ==
  /\ Len(urls) = 2
  /\ \E k \in 1..Len(urls) :
       /\ urls[k].click_count = MaxClicks
       /\ urls[k].short_url # EmptyCode
       /\ resolved[k] = MaxClicks

\* C8: counting a client's calls from the call that opened its current window
\* (the first call, or the first one made after window_end), calls 1 to 20 are
\* admitted and every later one is rejected; the opening call leaves the
\* window with count 1 and window_end = now + 60s.
C8_LimiterBoundary ==
  \A c \in Clients :
    hist[c].n >= 1 =>
      /\ hist[c].ok <=> hist[c].n <= MaxRequestsPerIP
      /\ c \in DOMAIN rateLimitStore
      /\ hist[c].n = 1 =>
           rateLimitStore[c] = [ Count |-> 1, WindowEnd |-> hist[c].end ]

\* in a client's second window its 21st call was rejected
C8_Witness ==
  \E c \in Clients :
    /\ hist[c].windows = 2
    /\ hist[c].n = MaxRequestsPerIP + 1
    /\ ~ hist[c].ok

\* C9: a CreateShortURL(L) call made after an earlier one left L's row
\* unassigned either exhausts again or returns the non-empty code it stored
\* on L's row.
C9_RetryAssignsCode ==
  (Created /\ ret.retry)
    => \/ ret.err = CapacityExhausted
       \/ /\ ret.err = Nil
          /\ ret.code # EmptyCode
          /\ ret.stored = { ret.code }

\* C10: GetLongURL fails with not-found exactly when no row holds the code,
\* and then the table is unchanged.
C10_NotFound ==
  Resolved => /\ (ret.err = NotFound) <=> ~ ret.wasHeld
              /\ ret.err = NotFound => ~ ret.changed

\* a resolution of a code no row holds failed while assigned rows exist
C10_Witness ==
  /\ Resolved /\ ret.err = NotFound
  /\ \E k \in 1..Len(urls) : urls[k].short_url # EmptyCode

InvalidInput == << "invalid URL format" >>

\* C14: a CreateShortURL(L) call that returns a nil error returns a non-empty
\* code of at most 10 characters, the one stored on L's row at that moment, on
\* every return path.
C14_ReturnedCodeStored ==
  CreatedOK => /\ Len(ret.code) \in 1..MaxShortCodeLength
               /\ ret.stored = { ret.code }

\* C15: the retry loop makes at most MaxRetries uniqueness checks; a call
\* leaves the loop without a code only after its MaxRetries-th collision, with
\* 'service capacity exhausted', without a store write, and its row keeps the
\* empty code and was never given one.
C15_CapacityExhaustion ==
  /\ [] ( \A p \in Procs : pc[p] = "loop" => i[p] < MaxRetries )
  /\ [][ \A p \in Procs :
           /\ (pc[p] = "loop" /\ pc'[p] = "loop") => i'[p] \in { i[p], i[p] + 1 }
           /\ (pc[p] = "loop" /\ pc'[p] = "idle")
                => /\ i[p] = MaxRetries - 1
                   /\ ret'.op = "create" /\ ret'.err = CapacityExhausted
                   /\ ret'.code = EmptyCode
                   /\ urls' = urls
                   /\ urls[newID[p]].long_url = longURL[p]
                   /\ urls[newID[p]].short_url = EmptyCode
                   /\ assigned'[newID[p]] = 0
           /\ (pc[p] \notin { "loop", "idle" } /\ pc'[p] = "idle")
                => ret'.err # CapacityExhausted ]_vars

\* a call has failed with 'service capacity exhausted' and left its row
\* unassigned beside an assigned row
C15_Witness ==
  /\ Created /\ ret.err = CapacityExhausted
  /\ ret.stored = { EmptyCode }
  /\ \E k \in 1..Len(urls) : urls[k].short_url # EmptyCode

C17_InvalidInput ==
  /\ [] ( /\ (Created /\ ret.longURL = URLnoScheme) => ret.err = InvalidInput
          /\ \A p \in Procs : longURL[p] # URLnoScheme
          /\ RowsOf(urls, URLnoScheme) = {} )
  /\ [][ (calls' # calls /\ pc' = pc
            /\ ret'.op = "create" /\ ret'.longURL = URLnoScheme)
           => UNCHANGED << urls, dbNow, longURL, newID, i, shortCode >> ]_vars

\* an invalid long URL was rejected while the table holds a row
C17_Witness ==
  /\ Created /\ ret.longURL = URLnoScheme /\ ret.err = InvalidInput
  /\ Len(urls) >= 1

\* C18: calls of CheckAndIncrementAccess exclude each other; every stored
\* window has a count between 1 and 20, equal to the number of calls admitted
\* in it, which never exceeds 20.
C18_LimiterAtomic ==
  /\ \A p \in Procs : ip[p] # "" => limitMutex = p
  /\ \A c \in DOMAIN rateLimitStore :
       /\ rateLimitStore[c].Count \in 1..MaxRequestsPerIP
       /\ rateLimitStore[c].Count = hist[c].admitted
  /\ \A c \in Clients :
       /\ hist[c].admitted <= MaxRequestsPerIP
       /\ hist[c].n >= 1 => c \in DOMAIN rateLimitStore

\* one client's window is full after a rejected call while a goroutine is
\* inside CheckAndIncrementAccess for the other client
C18_Witness ==
  /\ limitMutex # 0
  /\ \E c \in Clients \ { ip[limitMutex] } :
       /\ hist[c].admitted = MaxRequestsPerIP
       /\ hist[c].n > MaxRequestsPerIP

\* C20: a call that returns false leaves the window map as it was, a call for
\* one client leaves the windows of all others as they were, and nothing but
\* a call changes the map.
C20_LimiterFrame ==
  [][ /\ \A p \in Procs :
           (limitMutex = p /\ limitMutex' = 0)
             => /\ ~ hist'[ip[p]].ok => rateLimitStore' = rateLimitStore
                /\ DOMAIN rateLimitStore' = DOMAIN rateLimitStore \cup { ip[p] }
                /\ \A c \in DOMAIN rateLimitStore \ { ip[p] } :
                     rateLimitStore'[c] = rateLimitStore[c]
      /\ (limitMutex = 0 \/ limitMutex' # 0) => rateLimitStore' = rateLimitStore
    ]_vars

\* a client has been rejected at an instant after the one its window opened
\* at, while the other client has a window
C20_Witness ==
  \E c \in Clients :
    /\ ~ hist[c].ok
    /\ clock > 0 /\ clock <= hist[c].end
    /\ rateLimitStore[c].WindowEnd = WindowDuration
    /\ Clients \subseteq DOMAIN rateLimitStore

\* the calls of Observed admitted at the instants from s to s + WindowDuration
RECURSIVE SumOver(_, _)
SumOver(f, S) ==
  IF S = {} THEN 0
  ELSE LET t == CHOOSE x \in S : TRUE IN f[t] + SumOver(f, S \ { t })
AdmittedIn(s) ==
  SumOver(admits, { t \in Instants : s <= t /\ t <= s + WindowDuration })

\* C19: in every interval of WindowDuration seconds a client is admitted at
\* most 2 x MaxRequestsPerIP times, and a stored window is replaced only by a
\* call whose now is strictly after its window_end.
C19_BurstBound ==
  /\ [] ( \A s \in Instants : AdmittedIn(s) <= 2 * MaxRequestsPerIP )
  /\ [][ \A p \in Procs :
           ( /\ limitMutex = p /\ limitMutex' = 0
             /\ ip[p] \in DOMAIN rateLimitStore
             /\ rateLimitStore'[ip[p]].WindowEnd # rateLimitStore[ip[p]].WindowEnd )
             => /\ now[p] > rateLimitStore[ip[p]].WindowEnd
                /\ rateLimitStore'[ip[p]].Count = 1 ]_vars

\* a burst across a window boundary: the admissions of two consecutive
\* windows, all but the one that opened the first, lie in one interval
C19_Witness ==
  /\ hist[Observed].windows = 2
  /\ \E s \in Instants : AdmittedIn(s) = 2 * MaxRequestsPerIP - 1

Listed == ret.op = "list"

\* C11: the page Service.ListURLs reports never exceeds the total_pages it
\* reports, a requested page beyond the last one is reported as the last one,
\* and the offset of the fetch is (reported page - 1) * limit.
C11_PageClamping ==
  Listed => /\ ret.Page <= ret.TotalPages
            /\ ret.page > ret.TotalPages => ret.Page = ret.TotalPages
            /\ ret.offset = (ret.Page - 1) * ret.Limit

\* C12: Service.ListURLs reports total_pages = max(1, ceil(n / limit)) for the
\* count n it read, returns at most limit records, and returns at least one
\* record when n > 0.
C12_PageCount ==
  Listed => /\ ret.err = Nil
            /\ ret.TotalPages =
                 (IF ret.TotalCount = 0 THEN 1
                  ELSE (ret.TotalCount + ret.Limit - 1) \div ret.Limit)
            /\ Len(ret.ids) <= ret.Limit
            /\ ret.TotalCount > 0 => Len(ret.ids) > 0

\* C13: admission gating.  Every request consults the limiter exactly once,
\* before its handler does anything; a request the limiter refuses is answered
\* 429 with Retry-After: 60 and leaves the table, the allocator and the
\* click counters as they were; only an admitted request starts a handler
RequestServed == calls' # calls
Consulted(c) == hist'[c] # hist[c]

C13_AdmissionGating ==
  [][ /\ RequestServed <=> \E c \in Clients : Consulted(c)
      /\ \A c \in Clients :
           Consulted(c)
             => /\ \A d \in Clients \ { c } : ~ Consulted(d)
                /\ hist'[c].n = hist[c].n + 1
                /\ rateLimitStore' = CheckAndIncrementAccess(rateLimitStore, c, clock).store
                /\ hist'[c].ok = CheckAndIncrementAccess(rateLimitStore, c, clock).ok
                /\ hist'[c].ok => (ret' = ret \/ ret'.op # "rejected")
                /\ ~ hist'[c].ok
                     => /\ ret' = Rejected(c)
                        /\ ret'.RetryAfter = "60"
                        /\ UNCHANGED << urls, dbNow, pc, longURL, newID, i,
                                        shortCode, returned, inserts, owner,
                                        assigned, held, resolved, listVars >>
      /\ ~ RequestServed
           => /\ rateLimitStore' = rateLimitStore
              /\ ret'.op = "rejected" => ret' = ret
              /\ \A p \in Procs : pc[p] = "idle" => pc'[p] = "idle"
    ]_vars

\* a request was refused while records exist and another goroutine is in the
\* middle of an allocation
C13_Witness ==
  /\ ret.op = "rejected"
  /\ ~ hist[ret.ip].ok
  /\ hist[ret.ip].n > MaxRequestsPerIP
  /\ \E k \in 1..Len(urls) : urls[k].short_url # EmptyCode
  /\ \E p \in Procs : pc[p] # "idle"

====
